---- MODULE Spec2Model ----
(***************************************************************************)
(* Model of python/05_multiprocessing_fractal/multiprocessing_fractal.py:  *)
(* the grid partitioner complex_grids, the escape-time kernel julia_set    *)
(* and the __main__ driver that maps the kernel over the bands with a      *)
(* multiprocessing.Pool and concatenates the results.                      *)
(*                                                                         *)
(* Floating point is modelled by a small saturating format: the finite     *)
(* values are the integers -FMax..FMax, an exact result outside that range *)
(* overflows to +inf or -inf, and inf - inf and inf * 0 give NaN, as in    *)
(* IEEE-754.  A complex value is a pair <<re, im>> of such values.         *)
(***************************************************************************)
EXTENDS Integers, Sequences, FiniteSets, TLC

\* ------------------------------------------------------------------ bounds
\* Largest finite value of the float format.
FMax == 8
\* Finite components of the kernel's input values are drawn from -MaxIn..MaxIn.
MaxIn == 3
\* Components of the constant c are drawn from -MaxC..MaxC.
MaxC == 1
\* num_iter is drawn from 0..MaxIter.
MaxIter == 3
\* extent is drawn from 1..MaxExtent, n_cells from 1..MaxCells.
MaxExtent == 4
MaxCells == 4
\* n_slices is drawn from 1..MaxSlices, the pool's size from 1..MaxProcs.
MaxSlices == 5
MaxProcs == 2
\* The kernel raises on at most MaxRaises of the bands.
MaxRaises == 2

\* ------------------------------------------------------- float arithmetic
PInf == FMax + 1
NInf == 0 - (FMax + 1)
NaN == FMax + 2

\* The values of the format: -inf, the finite values, +inf, NaN.
Floats == NInf..NaN
Complex == Floats \X Floats

IsFin(x) == x >= 0 - FMax /\ x <= FMax

\* An exact result rounded into the format: overflow gives an infinity.
Round(n) == IF n > FMax THEN PInf ELSE IF n < 0 - FMax THEN NInf ELSE n

fneg[x \in Floats] == IF x = NaN THEN NaN ELSE 0 - x

fmul[x \in Floats, y \in Floats] ==
    IF x = NaN \/ y = NaN THEN NaN
    ELSE IF IsFin(x) /\ IsFin(y) THEN Round(x * y)
    ELSE IF x = 0 \/ y = 0 THEN NaN
    ELSE IF (x > 0) = (y > 0) THEN PInf ELSE NInf

fadd[x \in Floats, y \in Floats] ==
    IF x = NaN \/ y = NaN THEN NaN
    ELSE IF IsFin(x) /\ IsFin(y) THEN Round(x + y)
    ELSE IF IsFin(x) THEN y
    ELSE IF IsFin(y) THEN x
    ELSE IF x = y THEN x ELSE NaN

fsub[x \in Floats, y \in Floats] == fadd[x, fneg[y]]

\* x / y for x >= 0 and y > 0 with y dividing x: the inputs of complex_grids
\* are drawn where the step 2*extent/n_cells is exact.
fdiv[x \in Floats, y \in Floats] == Round(x \div y)

\* The smallest h with h*h >= n, for 0 <= n <= 2*FMax*FMax.
CeilSqrt(n) ==
    CHOOSE h \in 0..(2 * FMax) : h * h >= n /\ (h = 0 \/ (h - 1) * (h - 1) < n)

\* grid ** 2 on one complex value: numpy's square loop.
CSquare[z \in Complex] == << fsub[fmul[z[1], z[1]], fmul[z[2], z[2]]],
                             fadd[fmul[z[1], z[2]], fmul[z[2], z[1]]] >>

CAdd[z \in Complex, w \in Complex] == << fadd[z[1], w[1]], fadd[z[2], w[2]] >>

\* np.abs of a complex value (hypot): inf if a part is infinite, else NaN if a
\* part is NaN, else the magnitude, which may itself overflow.
NpAbs[z \in Complex] ==
    IF z[1] \in {PInf, NInf} \/ z[2] \in {PInf, NInf} THEN PInf
    ELSE IF z[1] = NaN \/ z[2] = NaN THEN NaN
    ELSE Round(CeilSqrt(z[1] * z[1] + z[2] * z[2]))

\* x < y on floats: false when either side is NaN.
FLess(x, y) == x # NaN /\ y # NaN /\ x < y

\* ------------------------------------------------------------------ arrays
\* A 2-D array is a record of its shape <<rows, cols>> and its rows.
\*
\* Bind(x, F) is F(x) with x evaluated once: an operator's argument is
\* evaluated again at each use, a bound variable holds its value.
Bind(x, F(_)) == CHOOSE r \in {F(v) : v \in {w \in {x} : w = w}} : TRUE

Positions(arr) == (1..arr.shape[1]) \X (1..arr.shape[2])

At(arr, p) == arr.data[p[1]][p[2]]

\* np.zeros(np.shape(grid))
NpZerosMut(shape) == [shape |-> shape,
                      data |-> [k \in 1..shape[1] |-> [m \in 1..shape[2] |-> 1]]]
NpZeros(shape) == [shape |-> shape,
                   data |-> [k \in 1..shape[1] |-> [m \in 1..shape[2] |-> 0]]]

\* ------------------------------------------------------------- julia_set
\* grid = grid ** 2 + c
JuliaUpdate(grid, c) ==
    Bind(grid, LAMBDA g :
        [shape |-> g.shape,
         data |-> [k \in 1..g.shape[1] |->
                     [m \in 1..g.shape[2] |-> CAdd[CSquare[g.data[k][m]], c]]]])

\* index = np.abs(grid) < np.inf
IndexMut(grid) ==
    Bind(grid, LAMBDA g :
        [shape |-> g.shape,
         data |-> [k \in 1..g.shape[1] |->
                     [m \in 1..g.shape[2] |-> IsFin(g.data[k][m][1])]]])
Index(grid) ==
    Bind(grid, LAMBDA g :
        [shape |-> g.shape,
         data |-> [k \in 1..g.shape[1] |->
                     [m \in 1..g.shape[2] |-> FLess(NpAbs[g.data[k][m]], PInf)]]])

\* fractal[index] = fractal[index] + 1
IncrementMut(fractal, index) ==
    Bind(fractal, LAMBDA f :
        [shape |-> f.shape,
         data |-> [k \in 1..f.shape[1] |->
                     [m \in 1..f.shape[2] |-> f.data[k][m] + 1]]])
Increment(fractal, index) ==
    Bind(<<fractal, index>>, LAMBDA fi :
        [shape |-> fi[1].shape,
         data |-> [k \in 1..fi[1].shape[1] |->
                     [m \in 1..fi[1].shape[2] |->
                        IF fi[2].data[k][m] THEN fi[1].data[k][m] + 1
                        ELSE fi[1].data[k][m]]]])

\* The loop of julia_set run for n iterations from the pair (grid, fractal).
RECURSIVE JuliaLoopN(_, _, _, _)
JuliaLoopN(grid, fractal, n, c) ==
    IF n <= 0 THEN fractal
    ELSE Bind(JuliaUpdate(grid, c), LAMBDA g :
             Bind(Increment(fractal, Index(g)), LAMBDA f :
                 JuliaLoopN(g, f, n - 1, c)))

julia_set(grid, num_iter, c) ==
    Bind(grid, LAMBDA g : JuliaLoopN(g, NpZeros(g.shape), num_iter, c))

\* --------------------------------------------------------- complex_grids
\* The pairs <<extent, n_cells>> whose step 2*extent/n_cells is representable.
GridInputs ==
    {en \in (1..MaxExtent) \X (1..MaxCells) : (2 * en[1]) % en[2] = 0}

\* np.arange(start, stop, step): ceil((stop - start)/step) values start + k*step.
\* In IEEE double the quotient can round above the exact one (extent = 1,
\* n_cells = 49 gives 50 values); round_up selects that outcome.
NpArange(start, stop, step, round_up) ==
    LET len == (stop - start + step - 1) \div step + (IF round_up THEN 1 ELSE 0)
    IN [k \in 1..len |-> fadd[start, fmul[k - 1, step]]]

\* mesh_range = np.arange(-extent, extent, 2*extent/n_cells)
MeshRange(extent, n_cells, round_up) ==
    NpArange(0 - extent, extent, fdiv[2 * extent, n_cells], round_up)

\* seq[lo:hi] of Python, for 0 <= lo <= hi.
PySlice(seq, lo, hi) ==
    Bind(<<seq, lo, hi>>, LAMBDA a :
        LET h == IF a[3] < Len(a[1]) THEN a[3] ELSE Len(a[1])
        IN IF a[2] >= h THEN << >> ELSE SubSeq(a[1], a[2] + 1, h))

SliceLowerMut(n_cells, i_part, n_slices) == (n_cells * i_part) \div n_slices + 1
SliceLower(n_cells, i_part, n_slices) == (n_cells * i_part) \div n_slices
SliceUpperMut(n_cells, i_part, n_slices) == (n_cells \div n_slices) * (i_part + 1)
SliceUpper(n_cells, i_part, n_slices) == (n_cells * (i_part + 1)) \div n_slices

\* x, y = np.meshgrid(mesh_range * 1j, mesh_range_slice); z = x + y
\* x[k][m] is mesh_range[m] * 1j and y[k][m] is mesh_range_slice[k].
MeshBand(mesh_range, mesh_range_slice) ==
    Bind(<<mesh_range, mesh_range_slice>>, LAMBDA r :
        [shape |-> <<Len(r[2]), Len(r[1])>>,
         data |-> [k \in 1..Len(r[2]) |->
                     [m \in 1..Len(r[1]) |->
                        CAdd[<<fmul[r[1][m], 0], fmul[r[1][m], 1]>>,
                             <<r[2][k], 0>>]]]])

\* One pass of the loop body of complex_grids for slice i_part (0-based).
GridBand(mesh_range, n_cells, i_part, n_slices) ==
    MeshBand(mesh_range,
             PySlice(mesh_range, SliceLower(n_cells, i_part, n_slices),
                     SliceUpper(n_cells, i_part, n_slices)))

complex_grids(extent, n_cells, n_slices, round_up) ==
    Bind(MeshRange(extent, n_cells, round_up), LAMBDA mesh_range :
        [i \in 1..n_slices |-> GridBand(mesh_range, n_cells, i - 1, n_slices)])

\* np.concatenate of a sequence of arrays of equal column count (axis 0).
RECURSIVE ConcatRows(_)
ConcatRows(arrs) ==
    Bind(arrs, LAMBDA a :
        IF a = << >> THEN << >> ELSE Head(a).data \o ConcatRows(Tail(a)))

NpConcatenate(arrs) ==
    Bind(arrs, LAMBDA a :
        [shape |-> <<Len(ConcatRows(a)), a[1].shape[2]>>, data |-> ConcatRows(a)])

\* ------------------------------------------------------------------- state
VARIABLES
    \* complex_grids: its arguments, locals and position
    g_pc, g_extent, g_n_cells, g_n_slices, g_round_up, g_mesh_range, g_i_part,
    g_meshes,
    \* julia_set: its arguments (k_grid_in is the caller's array), locals and
    \* position
    k_pc, k_grid_in, k_num_iter, k_c, k_grid, k_fractal, k_j,
    \* __main__: its position, the parameters the run is given (pool size,
    \* slice count, the bands on which the kernel raises), and its names
    pc, n_processes, n_slices, raises, grids, fractals, fractal,
    \* the Pool: task queue of chunk numbers, the chunks its n_processes
    \* (interchangeable) workers are running, the result queue, and the
    \* MapResult of the one map call
    chunksize, taskqueue, running, outqueue, number_left, success, value, event,
    \* bookkeeping: whether some chunk was collected before a chunk submitted
    \* ahead of it, and how often the kernel was called on each band
    scrambled, runs

gvars == <<g_pc, g_extent, g_n_cells, g_n_slices, g_round_up, g_mesh_range,
           g_i_part, g_meshes>>
kvars == <<k_pc, k_grid_in, k_num_iter, k_c, k_grid, k_fractal, k_j>>
poolvars == <<chunksize, taskqueue, running, outqueue, number_left, success,
              value, event, scrambled, runs>>
dvars == <<pc, n_processes, n_slices, raises, grids, fractals, fractal, poolvars>>
vars == <<gvars, kvars, dvars>>

\* The value of a name that is not bound yet.
None == [shape |-> <<0, 0>>, data |-> << >>]

\* ------------------------------------------- complex_grids as a process
GridIdle ==
    /\ g_pc = "idle" /\ g_extent = 0 /\ g_n_cells = 0 /\ g_n_slices = 0
    /\ g_round_up = FALSE /\ g_mesh_range = << >> /\ g_i_part = 0
    /\ g_meshes = << >>

GridInit ==
    /\ g_pc = "call"
    /\ \E en \in GridInputs : g_extent = en[1] /\ g_n_cells = en[2]
    /\ g_n_slices \in 1..MaxSlices
    /\ g_round_up \in BOOLEAN
    /\ g_mesh_range = << >> /\ g_i_part = 0 /\ g_meshes = << >>

\* mesh_range = np.arange(...); meshes = []
GridEnter ==
    /\ g_pc = "call"
    /\ g_mesh_range' = MeshRange(g_extent, g_n_cells, g_round_up)
    /\ g_meshes' = << >>
    /\ g_i_part' = 0
    /\ g_pc' = "loop"
    /\ UNCHANGED <<g_extent, g_n_cells, g_n_slices, g_round_up, kvars, dvars>>

\* for i_part in range(n_slices): ... meshes.append(z)
GridLoop ==
    /\ g_pc = "loop"
    /\ g_i_part < g_n_slices
    /\ g_meshes' = Append(g_meshes,
                          GridBand(g_mesh_range, g_n_cells, g_i_part, g_n_slices))
    /\ g_i_part' = g_i_part + 1
    /\ UNCHANGED <<g_pc, g_extent, g_n_cells, g_n_slices, g_round_up,
                   g_mesh_range, kvars, dvars>>

\* return meshes
GridReturn ==
    /\ g_pc = "loop"
    /\ g_i_part >= g_n_slices
    /\ g_pc' = "done"
    /\ UNCHANGED <<g_extent, g_n_cells, g_n_slices, g_round_up, g_mesh_range,
                   g_i_part, g_meshes, kvars, dvars>>

\* ----------------------------------------------- julia_set as a process
KernelIdle ==
    /\ k_pc = "idle" /\ k_grid_in = None /\ k_num_iter = 0 /\ k_c = <<0, 0>>
    /\ k_grid = None /\ k_fractal = None /\ k_j = 0

InVals == (0 - MaxIn..MaxIn) \cup {PInf, NInf, NaN}

\* The kernel's input arrays: every 1 x 1 array over the input values, finite
\* or not, and every band complex_grids returns.
KernelBands ==
    {[shape |-> <<1, 1>>, data |-> << << <<a, b>> >> >>] : a \in InVals, b \in InVals}
    \cup UNION {{complex_grids(en[1], en[2], s, FALSE)[i] : i \in 1..s} :
                en \in GridInputs, s \in 1..MaxSlices}

KernelInit ==
    /\ k_pc = "call"
    /\ k_grid_in \in KernelBands
    /\ k_num_iter \in 0..MaxIter
    /\ k_c \in (0 - MaxC..MaxC) \X (0 - MaxC..MaxC)
    /\ k_grid = k_grid_in
    /\ k_fractal = None
    /\ k_j = 0

\* fractal = np.zeros(np.shape(grid))
JuliaEnter ==
    /\ k_pc = "call"
    /\ k_fractal' = NpZeros(k_grid.shape)
    /\ k_j' = 0
    /\ k_pc' = "loop"
    /\ UNCHANGED <<k_grid_in, k_num_iter, k_c, k_grid, gvars, dvars>>

\* one iteration of: for j in range(num_iter)
JuliaLoop ==
    /\ k_pc = "loop"
    /\ k_j < k_num_iter
    /\ k_grid' = JuliaUpdate(k_grid, k_c)
    /\ k_fractal' = Increment(k_fractal, Index(k_grid'))
    /\ k_j' = k_j + 1
    /\ UNCHANGED <<k_pc, k_grid_in, k_num_iter, k_c, gvars, dvars>>

\* return fractal
JuliaReturn ==
    /\ k_pc = "loop"
    /\ k_j >= k_num_iter
    /\ k_pc' = "done"
    /\ UNCHANGED <<k_grid_in, k_num_iter, k_c, k_grid, k_fractal, k_j, gvars, dvars>>

\* ------------------------------------------------------------ __main__
\* The literals of __main__, scaled down: extent = 2, cells = 2000 (here 4, so
\* that the step 2*extent/cells stays exact), num_iter = 80 (here 2) and
\* c = -0.83 - 0.22j (here -1 + 0j).
Extent == 2
Cells == 4
NumIter == 2
CConst == <<0 - 1, 0>>

DriverIdle ==
    /\ pc = "idle" /\ n_processes = 0 /\ n_slices = 0 /\ raises = {}
    /\ grids = << >> /\ fractals = << >> /\ fractal = None
    /\ chunksize = 0 /\ taskqueue = << >> /\ running = {} /\ outqueue = << >>
    /\ number_left = 0 /\ success = TRUE /\ value = << >> /\ event = FALSE
    /\ scrambled = FALSE /\ runs = << >>

DriverInit ==
    /\ pc = "start"
    /\ n_processes \in 1..MaxProcs
    /\ n_slices \in 1..MaxSlices
    /\ raises \in {r \in SUBSET (1..n_slices) : Cardinality(r) <= MaxRaises}
    /\ grids = << >> /\ fractals = << >> /\ fractal = None
    /\ chunksize = 0 /\ taskqueue = << >> /\ running = {} /\ outqueue = << >>
    /\ number_left = 0 /\ success = TRUE /\ value = << >> /\ event = FALSE
    /\ scrambled = FALSE /\ runs = << >>

\* grids = complex_grids(extent, cells, n_slices); for extent = 2 and
\* cells = 2000 np.arange returns exactly 2000 values.
ComplexGrids ==
    /\ pc = "start"
    /\ grids' = complex_grids(Extent, Cells, n_slices, FALSE)
    /\ pc' = "pool"
    /\ UNCHANGED <<n_processes, n_slices, raises, fractals, fractal, poolvars,
                   gvars, kvars>>

\* Pool._map_async: chunksize, extra = divmod(len(iterable), len(pool) * 4)
MapChunksize(length, procs) ==
    IF length = 0 THEN 0
    ELSE length \div (procs * 4) + (IF length % (procs * 4) # 0 THEN 1 ELSE 0)

\* MapResult.__init__: length//chunksize + bool(length % chunksize)
NumberLeftMut(length, size) == length \div size + 1
NumberLeft(length, size) ==
    length \div size + (IF length % size # 0 THEN 1 ELSE 0)

\* Pool._get_tasks: the number of chunks of at most `size` bands.
NumTasks(length, size) == (length + size - 1) \div size

\* The bands (1-based) of chunk i (0-based): Pool._get_tasks.
ChunkBands(i, size, length) ==
    {b \in 1..length : b > i * size /\ b <= (i + 1) * size}

\* with Pool(processes=n_processes) as p: p.map(f, grids), up to the wait
PoolMap ==
    /\ pc = "pool"
    /\ LET size == MapChunksize(Len(grids), n_processes)
       IN /\ chunksize' = size
          /\ number_left' = NumberLeft(Len(grids), size)
          /\ taskqueue' = [t \in 1..NumTasks(Len(grids), size) |-> t - 1]
    /\ running' = {}
    /\ outqueue' = << >>
    /\ success' = TRUE
    /\ value' = [b \in 1..Len(grids) |-> None]
    /\ event' = FALSE
    /\ scrambled' = FALSE
    /\ runs' = [b \in 1..Len(grids) |-> 0]
    /\ pc' = "wait"
    /\ UNCHANGED <<n_processes, n_slices, raises, grids, fractals, fractal,
                   gvars, kvars>>

\* An idle worker takes the next chunk from the task queue.
WorkerGet ==
    /\ pc = "wait"
    /\ Cardinality(running) < n_processes
    /\ taskqueue # << >>
    /\ running' = running \cup {Head(taskqueue)}
    /\ taskqueue' = Tail(taskqueue)
    /\ UNCHANGED <<pc, n_processes, n_slices, raises, grids, fractals, fractal,
                   chunksize, outqueue, number_left, success, value, event,
                   scrambled, runs, gvars, kvars>>

\* mapstar in the worker: list(map(f, chunk)), f = partial(julia_set,
\* num_iter=80, c=c).  The first band on which the kernel raises ends the
\* chunk and the exception is the chunk's result.
ChunkResult(i) ==
    LET bands == ChunkBands(i, chunksize, Len(grids))
        bad == bands \cap raises
        first == CHOOSE b \in bands : \A x \in bands : b <= x
    IN IF bad = {}
       THEN [i |-> i, ok |-> TRUE,
             result |-> [x \in 1..Cardinality(bands) |->
                            julia_set(grids[first + x - 1], NumIter, CConst)]]
       ELSE [i |-> i, ok |-> FALSE, result |-> << >>]

\* The bands of chunk i on which the kernel is called.
ChunkCalled(i) ==
    LET bands == ChunkBands(i, chunksize, Len(grids))
        bad == bands \cap raises
    IN IF bad = {} THEN bands
       ELSE {b \in bands : \A x \in bad : b <= x}

\* The worker running chunk t finishes it and puts the result on the result
\* queue.
WorkerRun(t) ==
    /\ pc = "wait"
    /\ t \in running
    /\ outqueue' = Append(outqueue, ChunkResult(t))
    /\ runs' = [b \in 1..Len(grids) |->
                  IF b \in ChunkCalled(t) THEN runs[b] + 1 ELSE runs[b]]
    /\ running' = running \ {t}
    /\ UNCHANGED <<pc, n_processes, n_slices, raises, grids, fractals, fractal,
                   chunksize, taskqueue, number_left, success, value, event,
                   scrambled, gvars, kvars>>

\* self._value[i*chunksize:(i+1)*chunksize] = result
SetValueMut(val, i, size, result) ==
    Bind(<<val, result>>, LAMBDA a :
        SubSeq(a[2] \o a[1], 1, Len(a[1])))
SetValue(val, i, size, result) ==
    Bind(<<val, result>>, LAMBDA a :
        [b \in 1..Len(a[1]) |->
           IF b > i * size /\ b <= i * size + Len(a[2]) THEN a[2][b - i * size]
           ELSE a[1][b]])

\* if not success and self._success: self._success = False
SetSuccessMut(succ, ok) == succ
SetSuccess(succ, ok) == succ /\ ok

\* self._event.set(), reached only if self._number_left == 0
EventSetMut(left) == left <= 1
EventSet(left) == left = 0

\* The chunks submitted ahead of chunk i whose result is not collected yet:
\* still queued, in a worker, or on the result queue.
Uncollected(i) ==
    {t \in 0..(i - 1) :
        \/ \E x \in 1..Len(taskqueue) : taskqueue[x] = t
        \/ t \in running
        \/ \E x \in 1..Len(outqueue) : outqueue[x].i = t}

\* The result handler takes a result from the queue: MapResult._set.
HandleResult ==
    /\ pc = "wait"
    /\ outqueue # << >>
    /\ LET r == Head(outqueue)
       IN /\ number_left' = number_left - 1
          /\ IF r.ok /\ success
             THEN /\ value' = SetValue(value, r.i, chunksize, r.result)
                  /\ success' = success
             ELSE /\ success' = SetSuccess(success, r.ok)
                  /\ value' = IF ~r.ok /\ success THEN << >> ELSE value
          /\ event' = (event \/ EventSet(number_left'))
          /\ scrambled' = (scrambled \/ Uncollected(r.i) # {})
    /\ outqueue' = Tail(outqueue)
    /\ UNCHANGED <<pc, n_processes, n_slices, raises, grids, fractals, fractal,
                   chunksize, taskqueue, running, runs, gvars, kvars>>

\* p.map returns: MapResult.get after the event, self._success true.
MapReturn ==
    /\ pc = "wait"
    /\ event
    /\ success
    /\ fractals' = value
    /\ pc' = "concat"
    /\ UNCHANGED <<n_processes, n_slices, raises, grids, fractal, poolvars,
                   gvars, kvars>>

\* p.map raises: MapResult.get after the event, self._success false.  The
\* exception leaves the with block and ends the program.
MapRaise ==
    /\ pc = "wait"
    /\ event
    /\ ~success
    /\ pc' = "failed"
    /\ UNCHANGED <<n_processes, n_slices, raises, grids, fractals, fractal,
                   poolvars, gvars, kvars>>

\* fractal = np.concatenate(fractals)
Concatenate ==
    /\ pc = "concat"
    /\ fractal' = NpConcatenate(fractals)
    /\ pc' = "done"
    /\ UNCHANGED <<n_processes, n_slices, raises, grids, fractals, poolvars,
                   gvars, kvars>>

\* --------------------------------------------------------- specifications
\* complex_grids on its own, over the bounded inputs.
InitGrid == GridInit /\ KernelIdle /\ DriverIdle
GridNext == GridEnter \/ GridLoop \/ GridReturn
SpecGrid == InitGrid /\ [][GridNext]_vars

\* julia_set on its own, over the bounded inputs.
InitKernel == KernelInit /\ GridIdle /\ DriverIdle
KernelNext == JuliaEnter \/ JuliaLoop \/ JuliaReturn
SpecKernel == InitKernel /\ [][KernelNext]_vars

\* The program: __main__ and its pool.
Init == DriverInit /\ GridIdle /\ KernelIdle
Next ==
    \/ ComplexGrids
    \/ PoolMap
    \/ WorkerGet
    \/ \E t \in running : WorkerRun(t)
    \/ HandleResult
    \/ MapReturn
    \/ MapRaise
    \/ Concatenate
Spec == Init /\ [][Next]_vars

\* The program under fair scheduling.  Every step of a run moves it towards
\* its end, so the weakest fairness is enough: a step that stays possible is
\* eventually taken by some process (worker, result handler or main).
\* Every step changes one of these, so <<Next>>_progress is <<Next>>_vars.
progress == <<pc, taskqueue, running, number_left>>
Fairness == WF_progress(Next)
FairSpec == Init /\ [][Next]_vars /\ Fairness

\* ================================================================= claims

\* ------------------------------------------------ complex_grids (SpecGrid)
\* The row range of slice i (1-based), as the claims state it.
RowLower(i) == (g_n_cells * (i - 1)) \div g_n_slices
RowUpper(i) == (g_n_cells * i) \div g_n_slices

\* The mesh of the whole grid: the single band of the n_slices = 1 call.
FullMesh == complex_grids(g_extent, g_n_cells, 1, g_round_up)[1]

GridDone == g_pc = "done" /\ g_n_slices <= g_n_cells

\* C2: for 1 <= n_slices <= n_cells complex_grids returns exactly n_slices
\* bands; band i holds the rows [floor(n_cells*i/n_slices),
\* floor(n_cells*(i+1)/n_slices)) of the whole mesh, the ranges are contiguous
\* and cover rows 0..n_cells-1, and the bands concatenated in slice order are
\* the mesh of the n_slices = 1 call, row for row and value for value.
C2_BandsReassembleFullMesh ==
    GridDone =>
        /\ Len(g_meshes) = g_n_slices
        /\ RowLower(1) = 0
        /\ RowUpper(g_n_slices) = g_n_cells
        /\ \A i \in 1..(g_n_slices - 1) : RowUpper(i) = RowLower(i + 1)
        /\ \A i \in 1..g_n_slices :
              /\ RowLower(i) <= RowUpper(i)
              /\ g_meshes[i].shape = <<RowUpper(i) - RowLower(i), Len(g_mesh_range)>>
              /\ \A k \in 1..(RowUpper(i) - RowLower(i)) :
                    g_meshes[i].data[k] = FullMesh.data[RowLower(i) + k]
        /\ NpConcatenate(g_meshes) = FullMesh
        /\ FullMesh.shape[1] = g_n_cells

\* A returned partition into several bands of unequal row counts.
C2_Witness ==
    /\ GridDone
    /\ g_n_slices >= 2
    /\ g_n_cells % g_n_slices # 0
    /\ NpConcatenate(g_meshes) = FullMesh

RECURSIVE SumRows(_)
SumRows(arrs) ==
    IF arrs = << >> THEN 0 ELSE Head(arrs).shape[1] + SumRows(Tail(arrs))

\* C6: for 1 <= n_slices <= n_cells the bands' row counts sum to n_cells and
\* each is floor(n_cells/n_slices) or floor(n_cells/n_slices) + 1.
C6_RowCounts ==
    GridDone =>
        /\ SumRows(g_meshes) = g_n_cells
        /\ \A i \in 1..Len(g_meshes) :
              g_meshes[i].shape[1] \in {g_n_cells \div g_n_slices,
                                        g_n_cells \div g_n_slices + 1}

\* A returned partition in which both row counts occur.
C6_Witness ==
    /\ GridDone
    /\ \E i, j \in 1..Len(g_meshes) :
          /\ g_meshes[i].shape[1] = g_n_cells \div g_n_slices
          /\ g_meshes[j].shape[1] = g_n_cells \div g_n_slices + 1

\* C8: in every returned band the entry at (row k, column m) of band i has
\* real part r[m] and imaginary part r[slice_lower_i + k] (k, m 0-based; here
\* 1-based), r being the full coordinate sequence.  Stated for the calls in
\* which np.arange returns exactly n_cells values.
C8_RealAlongColumns ==
    (g_pc = "done" /\ ~g_round_up) =>
        \A i \in 1..Len(g_meshes) :
            \A k \in 1..g_meshes[i].shape[1], m \in 1..g_meshes[i].shape[2] :
                g_meshes[i].data[k][m] =
                    <<g_mesh_range[m], g_mesh_range[RowLower(i) + k]>>

\* ---------------------------------------------------- julia_set (SpecKernel)
\* The kernel's own test of a state: np.abs(z) < np.inf.
Finite(z) == FLess(NpAbs[z], PInf)

KernelRunning == k_pc \in {"loop", "done"}

\* C7: after j iterations every accumulator entry is an integer in 0..j, so
\* every entry of the result lies in 0..num_iter; num_iter = 0 returns an
\* all-zero array of the input's shape.
C7_Bounded ==
    KernelRunning =>
        /\ k_j \in 0..k_num_iter
        /\ k_fractal.shape = k_grid_in.shape
        /\ \A p \in Positions(k_grid_in) : At(k_fractal, p) \in 0..k_j
        /\ k_pc = "done" =>
              /\ k_j = k_num_iter
              /\ \A p \in Positions(k_grid_in) : At(k_fractal, p) \in 0..k_num_iter
              /\ k_num_iter = 0 =>
                    \A p \in Positions(k_grid_in) : At(k_fractal, p) = 0

\* A result that takes both extreme values, 0 and num_iter.
C7_Witness ==
    /\ k_pc = "done"
    /\ k_num_iter = MaxIter
    /\ \E p, q \in Positions(k_grid_in) :
          At(k_fractal, p) = k_num_iter /\ At(k_fractal, q) = 0

\* The state of a point after its first update.
FirstUpdate(z, c) == CAdd[CSquare[z], c]

\* C9 as stated: with num_iter >= 1 the result is 0 at a position only if the
\* input value there is non-finite, every finite input value yields at least
\* 1, and a position that never diverges yields num_iter.
C9_ZeroOnlyForNonFiniteInput ==
    (k_pc = "done" /\ k_num_iter >= 1) =>
        \A p \in Positions(k_grid_in) :
            /\ At(k_fractal, p) = 0 => ~Finite(At(k_grid_in, p))
            /\ Finite(At(k_grid_in, p)) => At(k_fractal, p) >= 1
            /\ Finite(At(k_grid, p)) => At(k_fractal, p) = k_num_iter

\* C9 amended: with num_iter >= 1 the result is 0 at a position exactly when
\* the state after the first update z*z + c is non-finite, which is so for
\* every non-finite input but also for a finite input whose square overflows;
\* a position that never diverges yields num_iter.
C9_ZeroIffFirstUpdateNonFinite ==
    (k_pc = "done" /\ k_num_iter >= 1) =>
        \A p \in Positions(k_grid_in) :
            /\ At(k_fractal, p) = 0 <=> ~Finite(FirstUpdate(At(k_grid_in, p), k_c))
            /\ ~Finite(At(k_grid_in, p)) => At(k_fractal, p) = 0
            /\ Finite(At(k_grid, p)) => At(k_fractal, p) = k_num_iter

\* A finite input value whose result is 0.
C9_Witness ==
    /\ k_pc = "done"
    /\ k_num_iter >= 1
    /\ \E p \in Positions(k_grid_in) :
          Finite(At(k_grid_in, p)) /\ At(k_fractal, p) = 0

\* The state of a point after i updates, and the number of leading
\* iterations among the first n after which the state is finite.
RECURSIVE Orbit(_, _, _)
Orbit(z, c, i) == IF i = 0 THEN z ELSE FirstUpdate(Orbit(z, c, i - 1), c)

LeadingFinite(z, c, n) ==
    Cardinality({i \in 1..n : \A h \in 1..i : Finite(Orbit(z, c, h))})

\* One iteration of the loop: the accumulator of a position grows by one
\* exactly when its updated state is finite, and a position whose state is
\* non-finite stays non-finite and keeps its count.
C10_Step ==
    (k_pc = "loop" /\ k_j' = k_j + 1) =>
        \A p \in Positions(k_grid_in) :
            /\ At(k_fractal', p) =
                  At(k_fractal, p) + (IF Finite(At(k_grid', p)) THEN 1 ELSE 0)
            /\ ~Finite(At(k_grid, p)) =>
                  ~Finite(At(k_grid', p)) /\ At(k_fractal', p) = At(k_fractal, p)

\* Each entry is the number of leading iterations with a finite state, and
\* the result for num_iter + 1 is nowhere below the result for num_iter.
C10_Count ==
    KernelRunning =>
        \A p \in Positions(k_grid_in) :
            /\ At(k_fractal, p) = LeadingFinite(At(k_grid_in, p), k_c, k_j)
            /\ k_pc = "done" =>
                  At(julia_set(k_grid_in, k_num_iter + 1, k_c), p) >= At(k_fractal, p)

\* C10: in the loop a position's accumulator is incremented at an iteration
\* exactly when its state after the update is finite; divergence is
\* absorbing; each result entry is the number of leading iterations for which
\* the state stayed finite; the result is non-decreasing in num_iter.
C10_IncrementWhileFinite == [][C10_Step]_vars /\ []C10_Count

\* A position that stayed finite for some iterations and then diverged.
C10_Witness ==
    /\ k_pc = "done"
    /\ \E p \in Positions(k_grid_in) :
          At(k_fractal, p) > 0 /\ At(k_fractal, p) < k_num_iter

\* ------------------------------------------------------- __main__ (Spec)
\* The image the run is to produce: the kernel's results for the bands of
\* complex_grids, concatenated in slice order.
Expected ==
    NpConcatenate([i \in 1..n_slices |->
        julia_set(complex_grids(Extent, Cells, n_slices, FALSE)[i], NumIter, CConst)])

\* C1: whatever the number of workers and the order in which they take and
\* finish bands, the final image is the concatenation, in slice order, of
\* the kernel's results for the mesh bands.
C1_ImageInSubmissionOrder ==
    pc = "done" => fractal = Expected

\* A finished run in which some result was collected before the result of
\* a band submitted ahead of it.
C1_Witness ==
    /\ pc = "done"
    /\ scrambled
    /\ n_processes >= 2

\* The kernel has raised in some worker.
KernelRaised == \E b \in DOMAIN runs : b \in raises /\ runs[b] > 0

\* C3: once the kernel has raised on a band the concatenation is never
\* executed and no image, full or partial, exists; a run ends only with the
\* complete image or failed; and the kernel is called at most once per band.
C3_FailureAborts ==
    /\ KernelRaised =>
          /\ pc \in {"wait", "failed"}
          /\ fractals = << >>
          /\ fractal = None
    /\ ~(ENABLED Next) =>
          \/ pc = "done" /\ fractal.shape = <<Cells, Cells>> /\ ~KernelRaised
          \/ pc = "failed" /\ fractal = None /\ KernelRaised
    /\ \A b \in DOMAIN runs : runs[b] <= 1

\* A failed run in which the kernel also ran to the end on some other band.
C3_Witness ==
    /\ pc = "failed"
    /\ KernelRaised
    /\ \E b \in DOMAIN runs : b \notin raises /\ runs[b] = 1

\* Every band's result is collected and no band is queued or in a worker.
AllCollected ==
    /\ taskqueue = << >>
    /\ running = {}
    /\ outqueue = << >>
    /\ number_left = 0
    /\ Len(fractals) = n_slices
    /\ \A b \in 1..n_slices :
          /\ runs[b] = 1
          /\ value[b] # None
          /\ fractals[b] = value[b]

\* C4: the concatenation is enabled only when the results of all n_slices
\* bands are collected and no band is unprocessed or in a worker, and the
\* main process holds no result before the map returns.
C4_Barrier ==
    /\ (ENABLED Concatenate) => AllCollected
    /\ pc \in {"start", "pool", "wait"} => fractals = << >> /\ fractal = None

\* The map has returned in a run with more bands than workers.
C4_Witness ==
    /\ pc = "concat"
    /\ n_slices > n_processes
    /\ AllCollected

\* --------------------------------------------------- __main__ (FairSpec)
\* C5: under fair scheduling, a run in which the kernel raises on no band
\* ends with the full Cells x Cells image, whatever the worker count and the
\* slice count.
C5_Terminates ==
    (raises = {}) ~> (pc = "done" /\ fractal.shape = <<Cells, Cells>>)

\* A finished run whose workers took chunks of more than one band.
C5_Witness ==
    /\ pc = "done"
    /\ raises = {}
    /\ chunksize >= 2
    /\ n_slices > n_processes

====
